---- MODULE Spec2Model ----
(***************************************************************************)
(* A model of src/task_manager.py: the TaskManager's in-memory collections *)
(* (self.tasks, self.team_members), the Task objects they share by         *)
(* reference, the SQLite tables save_data/load_data write and read, and    *)
(* the mail configuration.  One action per public operation; every action  *)
(* includes the save_data call the code makes.                             *)
(*                                                                         *)
(* Task objects live on a heap (objs); self.tasks and every member's       *)
(* tasks list hold references (indices into objs), because the code        *)
(* shares one Task object between the global list and the members' lists   *)
(* and allocate_task mutates the object it is handed.                      *)
(*                                                                         *)
(* title and description are opaque text the code only stores and copies;  *)
(* they are left out of the Task record.                                   *)
(***************************************************************************)
EXTENDS Integers, Sequences, FiniteSets, Bags, TLC

\* ---------------------------------------------------------------- bounds
\* Task objects constructed over the whole run.
MaxTasks == 2
\* Cap on a member's workload counter (it only ever grows).
MaxWorkload == 3
\* Task objects constructed where only their ids matter.
MaxIds == 3
\* Task objects constructed where to-do lists are generated.
MaxToDo == 3

\* The last day number (dates and clock readings are 0..MaxDay).
MaxDay == 9

\* ------------------------------------------------------ program constants
LOW == 1
MEDIUM == 2
HIGH == 3
\* send_reminders' window: (deadline - today).days <= 2
ReminderDays == 2

Priorities == {LOW, MEDIUM, HIGH}
Names == {"alice", "bob"}
Emails == {"a@x.org", "b@x.org"}
\* Calendar dates are day numbers.
Deadlines == {2, 3}
Todays == {0, 3}
Statuses == {"Not Started", "Completed"}
\* The id a caller gives a Task it constructs itself for allocate_task.
CallerIds == {1}

VARIABLES
    objs,          \* heap of Task objects: sequence of records, ref = index
    tasks,         \* self.tasks: sequence of refs
    team_members,  \* self.team_members: an insertion-ordered dict, as a
                   \* sequence of [name, email, tasks, workload]
    db,            \* the SQLite tables: [tasks, members], sequences of rows
    configured,    \* config['EMAIL'] holds a sender address and a password
    clock,         \* datetime.datetime.now(), advanced by each construction
    lastOp,        \* the operation that produced this state
    err,           \* the exception it raised, "none" when it returned
    ret,           \* what it returned, as a sequence of refs; for
                   \* send_reminders, the tasks send_reminder_email got
    maxIssued      \* history: the largest id add_task has returned so far

vars == <<objs, tasks, team_members, db, configured, clock, lastOp, err, ret,
          maxIssued>>

\* ------------------------------------------------------------- entities

\* Priority.name and Priority[name]
PriorityName(p) ==
    CASE p = LOW -> "LOW" [] p = MEDIUM -> "MEDIUM" [] p = HIGH -> "HIGH"

PriorityByName(s) ==
    CASE s = "LOW" -> LOW [] s = "MEDIUM" -> MEDIUM [] s = "HIGH" -> HIGH

\* date.isoformat / datetime.isoformat and their fromisoformat inverses
isoformat(d) == ToString(d)

fromisoformat(s) == CHOOSE d \in 0..MaxDay : ToString(d) = s

\* Task(id, title, description, deadline, priority, assigned_to): status and
\* created_at take their defaults.
Task(id, deadline, priority, assigned_to) ==
    [id |-> id, deadline |-> deadline, priority |-> priority,
     assigned_to |-> assigned_to, status |-> "Not Started",
     created_at |-> clock]

\* TeamMember(name, email): tasks and workload take their defaults.
TeamMember(name, email) ==
    [name |-> name, email |-> email, tasks |-> <<>>, workload |-> 0]

\* ------------------------------------------------------ dict operations

MemberNames == {team_members[i].name : i \in DOMAIN team_members}

\* name in self.team_members
HasMember(name) == name \in MemberNames

\* the position of self.team_members[name] in iteration order
MemberIndex(name) ==
    CHOOSE i \in DOMAIN team_members : team_members[i].name = name

SetMax(S) == CHOOSE x \in S : \A y \in S : y <= x

\* ---------------------------------------------------------- persistence

\* The row save_data inserts for a task.
TaskRow(t) ==
    [id |-> t.id, deadline |-> isoformat(t.deadline),
     priority |-> PriorityName(t.priority), assigned_to |-> t.assigned_to,
     status |-> t.status, created_at |-> isoformat(t.created_at)]

\* The row save_data inserts for a member: the tasks list is not stored.
MemberRow(m) == [name |-> m.name, email |-> m.email, workload |-> m.workload]

\* save_data: both tables are emptied and rewritten from memory.
save_data(ob, ts, tm) ==
    [tasks   |-> [i \in 1..Len(ts) |-> TaskRow(ob[ts[i]])],
     members |-> [i \in 1..Len(tm) |-> MemberRow(tm[i])]]

\* SELECT * FROM tasks: id is the INTEGER PRIMARY KEY, so the scan is in
\* ascending id order.
RECURSIVE ScanTasks(_)
ScanTasks(rows) ==
    IF rows = {} THEN <<>>
    ELSE LET r == CHOOSE x \in rows : \A y \in rows : x.id <= y.id
         IN  <<r>> \o ScanTasks(rows \ {r})

\* The Task load_data builds from a row.
LoadTask(row) ==
    [id |-> row.id, deadline |-> fromisoformat(row.deadline),
     priority |-> PriorityByName(row.priority),
     assigned_to |-> row.assigned_to, status |-> row.status,
     created_at |-> fromisoformat(row.created_at)]

\* The TeamMember load_data builds from a row: tasks takes its default.
LoadMember(row) ==
    [name |-> row.name, email |-> row.email, tasks |-> <<>>,
     workload |-> row.workload]

LoadedTasks ==
    LET rows == ScanTasks({db.tasks[i] : i \in DOMAIN db.tasks})
    IN  [i \in 1..Len(rows) |-> LoadTask(rows[i])]

LoadedMembers == [i \in 1..Len(db.members) |-> LoadMember(db.members[i])]

\* ------------------------------------------------------------------ Init
\* TaskManager() on a database that does not exist yet: create_tables, then
\* load_data finds both tables empty; load_config writes empty credentials.
Init ==
    /\ objs = <<>>
    /\ tasks = <<>>
    /\ team_members = <<>>
    /\ db = [tasks |-> <<>>, members |-> <<>>]
    /\ configured = FALSE
    /\ clock = 0
    /\ lastOp = "init"
    /\ err = "none"
    /\ ret = <<>>
    /\ maxIssued = 0

\* ------------------------------------------------------------ operations

\* NextId gone wrong: the id counted from the stored rows.
NextIdFromStore == Len(db.tasks) + 1

\* max([task.id for task in self.tasks], default=0) + 1
NextId == SetMax({objs[tasks[i]].id : i \in DOMAIN tasks} \cup {0}) + 1

add_task(deadline, priority, assigned_to) ==
    /\ LET task == Task(NextId, deadline, priority, assigned_to)
           ref  == Len(objs) + 1
           ob   == Append(objs, task)
           ts   == Append(tasks, ref)
       IN  /\ objs' = ob
           /\ tasks' = ts
           /\ clock' = clock + 1
           /\ lastOp' = "add_task"
                  /\ UNCHANGED configured
           /\ IF ~HasMember(assigned_to)
              THEN /\ err' = "ValueError: does not exist"
                   /\ ret' = <<>>
                   /\ UNCHANGED <<team_members, db, maxIssued>>
              ELSE LET i  == MemberIndex(assigned_to)
                       tm == [team_members EXCEPT
                                ![i].tasks = Append(@, ref),
                                ![i].workload = @ + priority]
                   IN  /\ team_members' = tm
                       /\ db' = save_data(ob, ts, tm)
                       /\ err' = "none"
                       /\ ret' = <<ref>>
                       /\ maxIssued' = IF task.id > maxIssued
                                       THEN task.id ELSE maxIssued

\* add_team_member gone wrong: the membership test is missing, so a
\* registered name gets a new TeamMember in its place.
add_team_member_overwrite(name, email) ==
    /\ lastOp' = "add_team_member"
    /\ ret' = <<>>
    /\ err' = "none"
    /\ UNCHANGED <<objs, tasks, configured, clock, maxIssued>>
    /\ LET tm == IF HasMember(name)
                 THEN [team_members EXCEPT
                         ![MemberIndex(name)] = TeamMember(name, email)]
                 ELSE Append(team_members, TeamMember(name, email))
       IN  /\ team_members' = tm
           /\ db' = save_data(objs, tasks, tm)

add_team_member(name, email) ==
    /\ lastOp' = "add_team_member"
    /\ ret' = <<>>
    /\ UNCHANGED <<objs, tasks, configured, clock, maxIssued>>
    /\ IF ~HasMember(name)
       THEN LET tm == Append(team_members, TeamMember(name, email))
            IN  /\ team_members' = tm
                /\ db' = save_data(objs, tasks, tm)
                /\ err' = "none"
       ELSE /\ err' = "ValueError: already exists"
            /\ UNCHANGED <<team_members, db>>

\* FindTask gone wrong: when no id matches, the loop variable still holds
\* the last task and that one is used.
FindTaskFallthrough(task_id) ==
    LET hits == {i \in DOMAIN tasks : objs[tasks[i]].id = task_id}
    IN  IF hits = {}
        THEN IF tasks = <<>> THEN 0 ELSE tasks[Len(tasks)]
        ELSE tasks[CHOOSE i \in hits : \A j \in hits : i <= j]

\* The first task in self.tasks whose id is task_id (the loop's break), 0 when
\* the loop ends without a match.
FindTask(task_id) ==
    LET hits == {i \in DOMAIN tasks : objs[tasks[i]].id = task_id}
    IN  IF hits = {} THEN 0
        ELSE tasks[CHOOSE i \in hits : \A j \in hits : i <= j]

update_task_status(task_id, new_status) ==
    /\ lastOp' = "update_task_status"
    /\ err' = "none"
    /\ ret' = <<>>
    /\ UNCHANGED <<tasks, team_members, configured, clock, maxIssued>>
    /\ LET ref == FindTask(task_id)
       IN  IF ref # 0
           THEN LET ob == [objs EXCEPT ![ref].status = new_status]
                IN  /\ objs' = ob
                    /\ db' = save_data(ob, tasks, team_members)
           ELSE UNCHANGED <<objs, db>>

\* KeyLess gone wrong: the key is x.priority.value alone.
KeyLessPriorityOnly(a, b) == a.priority < b.priority

\* The sort key of generate_to_do_list: (x.priority.value, x.deadline),
\* compared as Python compares tuples.
KeyLess(a, b) ==
    \/ a.priority < b.priority
    \/ a.priority = b.priority /\ a.deadline < b.deadline

\* sorted(..., reverse=True): x goes after every element whose key is not
\* smaller than its own, so equal keys keep their order (the sort is stable).
RECURSIVE InsertDesc(_, _)
InsertDesc(sorted, x) ==
    IF sorted = <<>> THEN <<x>>
    ELSE IF KeyLess(objs[Head(sorted)], objs[x])
         THEN <<x>> \o sorted
         ELSE <<Head(sorted)>> \o InsertDesc(Tail(sorted), x)

RECURSIVE SortedDesc(_)
SortedDesc(list) ==
    IF list = <<>> THEN <<>>
    ELSE InsertDesc(SortedDesc(SubSeq(list, 1, Len(list) - 1)),
                    list[Len(list)])

\* What generate_to_do_list returns.
ToDoList(team_member) ==
    IF HasMember(team_member)
    THEN SortedDesc(team_members[MemberIndex(team_member)].tasks)
    ELSE <<>>

generate_to_do_list(team_member) ==
    /\ lastOp' = "generate_to_do_list"
    /\ err' = "none"
    /\ ret' = ToDoList(team_member)
    /\ UNCHANGED <<objs, tasks, team_members, db, configured, clock,
                   maxIssued>>

\* LeastLoaded gone wrong: among members of minimum workload, the last.
LeastLoadedLastTie ==
    CHOOSE i \in DOMAIN team_members :
        /\ \A j \in DOMAIN team_members :
              team_members[i].workload <= team_members[j].workload
        /\ \A j \in (i + 1)..Len(team_members) :
              team_members[j].workload > team_members[i].workload

\* min(self.team_members.values(), key=lambda x: x.workload): the first
\* member, in iteration order, of minimum workload.
LeastLoaded ==
    CHOOSE i \in DOMAIN team_members :
        /\ \A j \in DOMAIN team_members :
              team_members[i].workload <= team_members[j].workload
        /\ \A j \in 1..(i - 1) :
              team_members[j].workload > team_members[i].workload

\* allocate_task(task) on the heap ob, which holds the task at ref; clk is
\* the clock once the caller has built the task.
allocate_task(ob, ref, clk) ==
    /\ lastOp' = "allocate_task"
    /\ ret' = <<>>
    /\ clock' = clk
    /\ UNCHANGED <<tasks, configured, maxIssued>>
    /\ IF team_members = <<>>
       THEN /\ err' = "ValueError: min() arg is an empty sequence"
            /\ objs' = ob
            /\ UNCHANGED <<team_members, db>>
       ELSE LET i   == LeastLoaded
                ob2 == [ob EXCEPT ![ref].assigned_to = team_members[i].name]
                tm  == [team_members EXCEPT
                          ![i].tasks = Append(@, ref),
                          ![i].workload = @ + ob[ref].priority]
            IN  /\ objs' = ob2
                /\ team_members' = tm
                /\ db' = save_data(ob2, tasks, tm)
                /\ err' = "none"

\* send_reminders' selection, in self.tasks order.
Upcoming(today) ==
    SelectSeq(tasks, LAMBDA r : /\ objs[r].deadline - today <= ReminderDays
                                /\ objs[r].status # "Completed")

\* send_reminder_email(task): how the call ends.  Without credentials it
\* prints and returns; self.team_members[task.assigned_to] raises KeyError
\* outside the try block; the SMTP exchange is inside try/except Exception,
\* so the call returns whether or not the message is delivered.
send_reminder_email(ref) ==
    IF ~configured THEN "returned"
    ELSE IF ~HasMember(objs[ref].assigned_to) THEN "KeyError"
    ELSE "returned"

\* The loop of send_reminders over the selection: the tasks
\* send_reminder_email is called with, ending at the first call that raises.
RECURSIVE RemindAll(_)
RemindAll(upcoming) ==
    IF upcoming = <<>> THEN <<>>
    ELSE IF send_reminder_email(Head(upcoming)) = "KeyError"
         THEN <<Head(upcoming)>>
         ELSE <<Head(upcoming)>> \o RemindAll(Tail(upcoming))

send_reminders(today) ==
    LET called == RemindAll(Upcoming(today))
    IN  /\ lastOp' = "send_reminders"
        /\ ret' = called
        /\ err' = IF /\ called # <<>>
                     /\ send_reminder_email(called[Len(called)]) = "KeyError"
                  THEN "KeyError" ELSE "none"
        /\ UNCHANGED <<objs, tasks, team_members, db, configured, clock,
                       maxIssued>>

\* CLI.configure_email: stores what was typed, empty or not.
configure_email(sender_email, sender_password) ==
    /\ configured' = (sender_email # "" /\ sender_password # "")
    /\ lastOp' = "configure_email"
    /\ err' = "none"
    /\ ret' = <<>>
    /\ UNCHANGED <<objs, tasks, team_members, db, clock, maxIssued>>

\* The process ends and TaskManager() is constructed again on the same
\* database and config.ini: load_data rebuilds both collections.
load_data ==
    /\ objs' = LoadedTasks
    /\ tasks' = [i \in 1..Len(LoadedTasks) |-> i]
    /\ team_members' = LoadedMembers
    /\ lastOp' = "load_data"
    /\ err' = "none"
    /\ ret' = <<>>
    /\ UNCHANGED <<db, configured, clock, maxIssued>>

\* ------------------------------------------------------------------ Next
\* The callers' inputs, drawn from the sets a specification names.

AddTaskIn(D, P, A) ==
    \E d \in D, p \in P, a \in A : add_task(d, p, a)

AddTeamMemberIn(N, E) == \E n \in N, e \in E : add_team_member(n, e)

UpdateTaskStatusIn(I, S) ==
    \E id \in I, s \in S : update_task_status(id, s)

GenerateToDoList == \E n \in Names : generate_to_do_list(n)

\* allocate_task on a Task the caller got from the manager earlier.
AllocateExisting == \E ref \in DOMAIN objs : allocate_task(objs, ref, clock)

\* allocate_task on a Task the caller has just constructed, assigned to
\* nobody yet.
AllocateNewIn(D, P) ==
    \E id \in CallerIds, d \in D, p \in P :
        allocate_task(Append(objs, Task(id, d, p, "")), Len(objs) + 1,
                      clock + 1)

SendReminders == \E today \in Todays : send_reminders(today)

ConfigureEmail ==
    \E e \in {"", "me@x.org"}, pw \in {"", "secret"} : configure_email(e, pw)

Restart == load_data

\* The step stays within the bounds: at most n Task objects constructed so
\* far and no workload above w.
Fits(n, w) ==
    /\ clock' <= n
    /\ \A i \in DOMAIN team_members' : team_members'[i].workload <= w

\* Every operation, on tasks of one kind.
Next ==
    \/ AddTaskIn({2}, {LOW}, Names) /\ Fits(MaxTasks, MaxWorkload)
    \/ AddTeamMemberIn(Names, {"a@x.org"}) /\ Fits(MaxTasks, MaxWorkload)
    \/ UpdateTaskStatusIn(1..MaxTasks, {"Completed"})
          /\ Fits(MaxTasks, MaxWorkload)
    \/ GenerateToDoList /\ Fits(MaxTasks, MaxWorkload)
    \/ AllocateExisting /\ Fits(MaxTasks, MaxWorkload)
    \/ SendReminders /\ Fits(MaxTasks, MaxWorkload)
    \/ ConfigureEmail /\ Fits(MaxTasks, MaxWorkload)
    \/ Restart /\ Fits(MaxTasks, MaxWorkload)

Spec == Init /\ [][Next]_vars

\* Task ids: tasks created, successfully or not, across restarts.
NextIds ==
    \/ AddTaskIn({2}, {LOW}, Names) /\ Fits(MaxIds, MaxIds)
    \/ AddTeamMemberIn(Names, {"a@x.org"}) /\ Fits(MaxIds, MaxIds)
    \/ UpdateTaskStatusIn(1..MaxIds, {"Completed"}) /\ Fits(MaxIds, MaxIds)
    \/ AllocateNewIn({2}, {LOW}) /\ Fits(MaxIds, MaxIds)
    \/ Restart /\ Fits(MaxIds, MaxIds)

SpecIds == Init /\ [][NextIds]_vars

\* Registration, with every address.
NextMembers ==
    \/ AddTeamMemberIn(Names, Emails) /\ Fits(MaxTasks, MaxWorkload)
    \/ AddTaskIn({2}, {LOW, HIGH}, Names) /\ Fits(MaxTasks, MaxWorkload)
    \/ UpdateTaskStatusIn(1..MaxTasks, {"Completed"})
          /\ Fits(MaxTasks, MaxWorkload)
    \/ Restart /\ Fits(MaxTasks, MaxWorkload)

SpecMembers == Init /\ [][NextMembers]_vars

\* Allocation, of tasks of every priority, new ones and ones already
\* assigned.
NextAlloc ==
    \/ AddTeamMemberIn(Names, {"a@x.org"}) /\ Fits(MaxTasks, MaxWorkload)
    \/ AddTaskIn({2}, {MEDIUM}, {"bob"}) /\ Fits(MaxTasks, MaxWorkload)
    \/ AllocateExisting /\ Fits(MaxTasks, MaxWorkload)
    \/ AllocateNewIn({2}, Priorities) /\ Fits(MaxTasks, MaxWorkload)
    \/ Restart /\ Fits(MaxTasks, MaxWorkload)

SpecAlloc == Init /\ [][NextAlloc]_vars

\* Reassignment: tasks are created and moved by allocate_task alone, in one
\* process.
NextReassign ==
    \/ AddTeamMemberIn(Names, {"a@x.org"}) /\ Fits(MaxTasks, MaxWorkload)
    \/ AllocateExisting /\ Fits(MaxTasks, MaxWorkload)
    \/ AllocateNewIn({2}, Priorities) /\ Fits(MaxTasks, MaxWorkload)

SpecReassign == Init /\ [][NextReassign]_vars

\* Status updates, on tasks in and out of the global list.
NextStatus ==
    \/ AddTeamMemberIn(Names, {"a@x.org"}) /\ Fits(MaxTasks, MaxWorkload)
    \/ AddTaskIn(Deadlines, {LOW, HIGH}, {"alice"})
          /\ Fits(MaxTasks, MaxWorkload)
    \/ AllocateNewIn({2}, {LOW}) /\ Fits(MaxTasks, MaxWorkload)
    \/ UpdateTaskStatusIn(1..MaxTasks, Statuses)
          /\ Fits(MaxTasks, MaxWorkload)
    \/ Restart /\ Fits(MaxTasks, MaxWorkload)

SpecStatus == Init /\ [][NextStatus]_vars

\* To-do lists, over every priority and deadline.
NextToDo ==
    \/ AddTeamMemberIn({"alice"}, {"a@x.org"}) /\ Fits(MaxToDo, HIGH * MaxToDo)
    \/ AddTaskIn(Deadlines, Priorities, {"alice"})
          /\ Fits(MaxToDo, HIGH * MaxToDo)
    \/ GenerateToDoList /\ Fits(MaxToDo, HIGH * MaxToDo)

SpecToDo == Init /\ [][NextToDo]_vars

\* ---------------------------------------------------------------- views
\* The collections by value, so that states with different heaps compare.

Range(seq) == {seq[i] : i \in DOMAIN seq}

Count(seq, x) == Cardinality({i \in DOMAIN seq : seq[i] = x})

\* self.tasks, as the Task values it holds.
GlobalTasks == [i \in DOMAIN tasks |-> objs[tasks[i]]]

\* self.team_members, each member with the Task values its list holds.
Members ==
    [i \in DOMAIN team_members |->
        [name     |-> team_members[i].name,
         email    |-> team_members[i].email,
         workload |-> team_members[i].workload,
         tasks    |-> [j \in DOMAIN team_members[i].tasks |->
                          objs[team_members[i].tasks[j]]]]]

\* The sum of priority.value over a list of tasks.
RECURSIVE SumPriority(_)
SumPriority(list) ==
    IF list = <<>> THEN 0
    ELSE objs[Head(list)].priority + SumPriority(Tail(list))

\* The sum of priority.value over a set of tasks.
RECURSIVE SumPriorityOf(_)
SumPriorityOf(refs) ==
    IF refs = {} THEN 0
    ELSE LET r == CHOOSE x \in refs : TRUE
         IN  objs[r].priority + SumPriorityOf(refs \ {r})

\* The tasks the manager still refers to.
LiveRefs ==
    Range(tasks) \cup
    UNION {Range(team_members[i].tasks) : i \in DOMAIN team_members}

\* --------------------------------------------------------------- claims

\* C1: add_task with an assigned_to that names no registered member reports
\* an error and leaves the global task list and every member (workload and
\* task list) as they were.
C1_FailedAddTaskChangesNothing ==
    [][\A d \in Deadlines, p \in Priorities, a \in Names :
          (add_task(d, p, a) /\ ~HasMember(a)) =>
             /\ err' = "ValueError: does not exist"
             /\ GlobalTasks' = GlobalTasks
             /\ Members' = Members]_vars

\* C2: each registered member's workload equals the sum of priority.value
\* over the tasks in that member's task list.
C2_WorkloadIsSumOverTaskList ==
    \A i \in DOMAIN team_members :
        team_members[i].workload = SumPriority(team_members[i].tasks)

\* C4: load_data after save_data reproduces the task collection and the
\* member collection (name, email, workload and task list) that were saved.
C4_SaveThenLoadRoundTrips ==
    [][(lastOp' = "load_data" /\ db = save_data(objs, tasks, team_members))
          => (GlobalTasks' = GlobalTasks /\ Members' = Members)]_vars

\* The tasks C5 says are reminded: deadline at most 2 days after today and
\* status not "Completed", in list order.
DueSoon(today) ==
    SelectSeq(tasks, LAMBDA r : /\ objs[r].deadline - today <= 2
                                /\ objs[r].status # "Completed")

\* C5: send_reminders calls send_reminder_email for exactly the tasks due
\* within 2 days (overdue ones included) that are not completed, whatever
\* happens while handling one of them, and raises nothing.
C5_EveryDueTaskIsReminded ==
    [][\A today \in Todays :
          send_reminders(today) =>
             (ret' = DueSoon(today) /\ err' = "none")]_vars

\* C10: a live task is in member M's list exactly when its assigned_to is M,
\* so each workload is the sum of priority.value over the tasks assigned to
\* that member and no task is in two members' lists.
C10_ListedIffAssigned ==
    \A i \in DOMAIN team_members :
        LET m    == team_members[i]
            mine == {r \in LiveRefs : objs[r].assigned_to = m.name}
        IN  /\ Range(m.tasks) = mine
            /\ m.workload = SumPriorityOf(mine)
            /\ \A j \in DOMAIN team_members :
                  j # i => Range(team_members[j].tasks) \cap Range(m.tasks) = {}

\* ------------------------------------------------- claims that hold

\* No two tasks in the global list share an id.
UniqueIds ==
    \A i, j \in DOMAIN tasks :
        objs[tasks[i]].id = objs[tasks[j]].id => i = j

\* C3: the id add_task returns is greater than every id it returned before
\* and every id in the global list, it is 1 when the global list is empty,
\* and the ids in the global list stay pairwise different.
C3_IdsIncrease ==
    [][/\ UniqueIds'
       /\ (lastOp' = "add_task" /\ err' = "none") =>
             LET id == objs'[ret'[1]].id
             IN  /\ id > maxIssued
                 /\ \A i \in DOMAIN tasks : id > objs[tasks[i]].id
                 /\ tasks = <<>> => id = 1]_vars

\* add_task has returned a third id after one call failed and the process
\* restarted.
C3_Witness ==
    /\ lastOp = "add_task"
    /\ err = "none"
    /\ objs[ret[1]].id = 3
    /\ \E i \in DOMAIN tasks : ~HasMember(objs[tasks[i]].assigned_to)
    /\ \E i \in DOMAIN team_members :
          team_members[i].workload > SumPriority(team_members[i].tasks)

\* C6: add_team_member on a registered name raises "already exists" and
\* leaves every member as it was; on a new name it appends a member with
\* workload 0 and no tasks and changes no other member and no task.
C6_AddTeamMember ==
    [][\A n \in Names, e \in Emails :
          add_team_member(n, e) =>
             /\ tasks' = tasks
             /\ objs' = objs
             /\ IF n \in {team_members[i].name : i \in DOMAIN team_members}
                THEN /\ err' = "ValueError: already exists"
                     /\ team_members' = team_members
                ELSE /\ err' = "none"
                     /\ Len(team_members') = Len(team_members) + 1
                     /\ \A i \in DOMAIN team_members :
                           team_members'[i] = team_members[i]
                     /\ team_members'[Len(team_members')] =
                           [name |-> n, email |-> e, tasks |-> <<>>,
                            workload |-> 0]]_vars

\* A registration was refused for a member who has a task and whose
\* address is not the one every other member has.
C6_Witness ==
    /\ lastOp = "add_team_member"
    /\ err = "ValueError: already exists"
    /\ Len(team_members) = 2
    /\ team_members[1].email # team_members[2].email
    /\ \E i \in DOMAIN team_members :
          team_members[i].workload > 0 /\ team_members[i].tasks # <<>>

\* What C7 says allocate_task does to the task at ref of heap ob.
AllocateEffect(ob, ref) ==
    \E i \in DOMAIN team_members :
        /\ \A j \in DOMAIN team_members :
              team_members[i].workload <= team_members[j].workload
        /\ \A j \in DOMAIN team_members :
              team_members[j].workload = team_members[i].workload => i <= j
        /\ err' = "none"
        /\ objs' = [ob EXCEPT ![ref].assigned_to = team_members[i].name]
        /\ DOMAIN team_members' = DOMAIN team_members
        /\ team_members'[i].tasks = Append(team_members[i].tasks, ref)
        /\ team_members'[i].workload =
              team_members[i].workload + ob[ref].priority
        /\ team_members'[i].name = team_members[i].name
        /\ team_members'[i].email = team_members[i].email
        /\ \A j \in DOMAIN team_members :
              j # i => team_members'[j] = team_members[j]
        /\ tasks' = tasks

\* C7: with a member registered, allocate_task gives the task to the
\* earliest-registered member of minimum workload: it sets assigned_to,
\* appends the task to that member's list, adds priority.value to that
\* member's workload, and changes no other member and not the global list.
C7_AllocateToLeastLoaded ==
    [][/\ \A ref \in DOMAIN objs :
             (allocate_task(objs, ref, clock) /\ team_members # <<>>)
                => AllocateEffect(objs, ref)
       /\ \A id \in CallerIds, d \in Deadlines, p \in Priorities :
             LET ob == Append(objs, Task(id, d, p, ""))
             IN  (allocate_task(ob, Len(ob), clock + 1)
                     /\ team_members # <<>>)
                    => AllocateEffect(ob, Len(ob))]_vars

\* A task of the global list was allocated to the first of two members
\* whose workloads had tied, while a member holds a task that is not in the
\* global list.
C7_Witness ==
    /\ lastOp = "allocate_task"
    /\ err = "none"
    /\ Len(team_members) = 2
    /\ team_members[1].tasks # <<>>
    /\ LET ref == team_members[1].tasks[Len(team_members[1].tasks)]
       IN  /\ ref \in Range(tasks)
           /\ objs[ref].assigned_to = team_members[1].name
           /\ team_members[1].workload - objs[ref].priority =
                 team_members[2].workload
    /\ \E i \in DOMAIN team_members :
          \E r \in Range(team_members[i].tasks) : r \notin Range(tasks)

\* What C8 says update_task_status does.
UpdateEffect(task_id, new_status) ==
    LET hit == {r \in Range(tasks) : objs[r].id = task_id}
    IN  /\ err' = "none"
        /\ tasks' = tasks
        /\ team_members' = team_members
        /\ DOMAIN objs' = DOMAIN objs
        /\ \A r \in DOMAIN objs :
              objs'[r] = IF r \in hit
                         THEN [objs[r] EXCEPT !.status = new_status]
                         ELSE objs[r]
        /\ hit = {} => db' = db

\* C8: update_task_status changes the status of the task of the global list
\* with that id and nothing else: not its other fields, not another task,
\* not a member; with no such task nothing changes and nothing is raised.
C8_UpdateChangesOnlyStatus ==
    [][\A id \in 1..MaxTasks, s \in Statuses :
          update_task_status(id, s) => UpdateEffect(id, s)]_vars

\* A task of the global list is "Completed" after an update while a task
\* outside the global list has the same id and is not.
C8_Witness ==
    /\ lastOp = "update_task_status"
    /\ \E r \in Range(tasks), q \in DOMAIN objs :
          /\ q \notin Range(tasks)
          /\ objs[q].id = objs[r].id
          /\ objs[r].status = "Completed"
          /\ objs[q].status = "Not Started"
          /\ \E i \in DOMAIN team_members : r \in Range(team_members[i].tasks)

\* What C9 says generate_to_do_list returns.
ToDoEffect(name) ==
    /\ err' = "none"
    /\ UNCHANGED <<objs, tasks, team_members, db>>
    /\ IF name \in {team_members[i].name : i \in DOMAIN team_members}
       THEN LET list == team_members[
                           CHOOSE i \in DOMAIN team_members :
                               team_members[i].name = name].tasks
            IN  /\ Len(ret') = Len(list)
                /\ \A r \in DOMAIN objs : Count(ret', r) = Count(list, r)
                /\ \A i, j \in DOMAIN ret' :
                      i < j =>
                        LET a == objs[ret'[i]]
                            b == objs[ret'[j]]
                        IN  \/ a.priority > b.priority
                            \/ /\ a.priority = b.priority
                               /\ a.deadline >= b.deadline
       ELSE ret' = <<>>

\* C9: generate_to_do_list returns a permutation of the member's task list
\* in descending (priority.value, deadline) order, the empty list for an
\* unregistered name, and changes nothing.
C9_ToDoListSorted ==
    [][\A n \in Names : generate_to_do_list(n) => ToDoEffect(n)]_vars

\* The to-do list of a member whose list is (MEDIUM, 3), (HIGH, 2),
\* (HIGH, 3) came back as (HIGH, 3), (HIGH, 2), (MEDIUM, 3).
C9_Witness ==
    /\ lastOp = "generate_to_do_list"
    /\ Len(team_members) = 1
    /\ Len(team_members[1].tasks) = 3
    /\ LET l == team_members[1].tasks
       IN  /\ objs[l[1]].priority = MEDIUM /\ objs[l[1]].deadline = 3
           /\ objs[l[2]].priority = HIGH /\ objs[l[2]].deadline = 2
           /\ objs[l[3]].priority = HIGH /\ objs[l[3]].deadline = 3
           /\ ret = <<l[3], l[2], l[1]>>

====
